---------------------------- MODULE Spec2Model ----------------------------
(***************************************************************************)
(* Model of the relay scheduler.                                           *)
(*                                                                         *)
(*   controller : src/subscriber/mqtt_subscriber.py                        *)
(*                main loop (evaluator thread) + on_message (bus thread)   *)
(*   gateway    : src/backend/websocket_server.py                          *)
(*                handle_connection / publish_to_mqtt (event loop) +       *)
(*                on_connect / on_disconnect (bus thread)                  *)
(*                                                                         *)
(*   Spec         : the running controller                                 *)
(*   SpecLive     : Spec with a fair main thread                           *)
(*   SpecGateway  : the running gateway                                    *)
(*   SpecShutdown : start and exit of both processes                       *)
(*                                                                         *)
(* Text values (time strings) are sequences of one-character strings, so   *)
(* that parsing (strptime) and formatting (strftime) are computed          *)
(* character by character.  Python's None is the empty sequence for text   *)
(* fields (neither strftime nor an accepted strptime input is empty) and   *)
(* the string "None" for the one-character fields.                         *)
(***************************************************************************)
EXTENDS Integers, Sequences, FiniteSets, TLC

(***************************************************************************)
(* Program constants                                                       *)
(***************************************************************************)
CHECK_INTERVAL_SECONDS == 1

SERIAL_RECONNECT_DELAY_SECONDS == 10

\* time.sleep(2) in setup_serial
SETTLE_SECONDS == 2

(***************************************************************************)
(* Bounds of the model                                                     *)
(***************************************************************************)
\* the evaluator starts no tick once the wall clock has run this many
\* seconds past the start of the run
MaxRun == 14

\* number of bus messages delivered to on_message
MaxMsgs == 2

\* number of serial failures (failed opens and failed writes) the
\* environment produces
MaxFaults == 2

\* number of WebSocket messages the gateway receives
MaxReq == 2

\* number of connect / disconnect notifications of the gateway's bus client
MaxBusEvents == 2

\* number of WebSocket connections open at the gateway
MaxConns == 2

None == << >>

Digits == <<"0", "1", "2", "3", "4", "5", "6", "7", "8", "9">>

DigitSet == {Digits[i] : i \in 1..10}

\* wall-clock second of the day at which the controller process starts
StartClocks == {0, 50}

(***************************************************************************)
(* datetime.now().strftime("%H:%M"): zero-padded 24-hour hour and minute   *)
(* of the wall clock (seconds of the day).                                 *)
(***************************************************************************)
strftime_HM(t) ==
    LET h == (t \div 3600) % 24
        m == (t \div 60) % 60
    IN  << Digits[(h \div 10) + 1], Digits[(h % 10) + 1], ":",
           Digits[(m \div 10) + 1], Digits[(m % 10) + 1] >>

(***************************************************************************)
(* datetime.strptime(s, "%H:%M").  CPython compiles the format to the      *)
(* regular expression (2[0-3]|[0-1]\d|\d):([0-5]\d|\d), matches it at the  *)
(* start of s (alternatives in order, with backtracking, no end anchor)    *)
(* and raises ValueError when there is no match or when the match does not *)
(* end at the end of s ("unconverted data remains").                       *)
(***************************************************************************)
\* lengths matched by %H at position 1, in the order the regex tries them
HourAlternatives(s) ==
    LET n == Len(s)
        a1 == IF n >= 2 /\ s[1] = "2" /\ s[2] \in {"0", "1", "2", "3"}
              THEN <<2>> ELSE << >>
        a2 == IF n >= 2 /\ s[1] \in {"0", "1"} /\ s[2] \in DigitSet
              THEN <<2>> ELSE << >>
        a3 == IF n >= 1 /\ s[1] \in DigitSet THEN <<1>> ELSE << >>
    IN  a1 \o a2 \o a3

\* length matched by %M at position p (0: no match); first alternative wins
MinuteMatch(s, p) ==
    LET n == Len(s)
    IN  IF n >= p + 1 /\ s[p] \in {"0", "1", "2", "3", "4", "5"}
           /\ s[p + 1] \in DigitSet
        THEN 2
        ELSE IF n >= p /\ s[p] \in DigitSet THEN 1 ELSE 0

\* end index of the regex match, 0 when the regex does not match
MatchEnd(s) ==
    LET alts == HourAlternatives(s)
        ok(h) == /\ Len(s) >= h + 1
                 /\ s[h + 1] = ":"
                 /\ MinuteMatch(s, h + 2) > 0
        good == {i \in 1..Len(alts) : ok(alts[i])}
    IN  IF good = {} THEN 0
        ELSE LET i == CHOOSE j \in good : \A k \in good : j <= k
                 h == alts[i]
             IN  h + 1 + MinuteMatch(s, h + 2)

\* TRUE when strptime returns, FALSE when it raises ValueError
strptime_HM(s) == MatchEnd(s) > 0 /\ MatchEnd(s) = Len(s)

(***************************************************************************)
(* Bus payloads delivered to on_message.  A JSON value is a record: t is   *)
(* "str" (with the text in s), "num" (any non-text JSON value) or          *)
(* "missing" (the key is absent).                                          *)
(***************************************************************************)
TimeTexts ==
    { <<"0", "0", ":", "0", "0">>,
      <<"0", "0", ":", "0", "1">>,
      <<"0", ":", "1">>,
      <<"2", "5", ":", "9", "9">> }

JsonValues ==
    {[t |-> "str", s |-> x] : x \in TimeTexts}
        \cup {[t |-> "num", s |-> None], [t |-> "missing", s |-> None]}

NoValue == [t |-> "missing", s |-> None]

Payloads ==
    {[kind |-> k, on_time |-> NoValue, off_time |-> NoValue] :
        k \in {"badutf8", "badjson", "notdict"}}
        \cup {[kind |-> "dict", on_time |-> a, off_time |-> b] :
                a \in JsonValues, b \in JsonValues}

\* WebSocket messages: the gateway looks at the structure only, so two time
\* texts (one of them no time), the same for both keys, stand for all
GatewayPayloads ==
    {p \in Payloads :
        /\ p.kind # "badutf8"
        /\ \A v \in {p.on_time, p.off_time} :
              v.t = "str" => v.s \in { <<"0", "0", ":", "0", "0">>,
                                       <<"2", "5", ":", "9", "9">> }
        /\ \A v \in {p.on_time, p.off_time} : v.t # "num"
        /\ (p.on_time.t = "str" /\ p.off_time.t = "str")
              => p.on_time.s = p.off_time.s}

NoPayload == [kind |-> "none", on_time |-> NoValue, off_time |-> NoValue]

\* A WebSocket message as received: the JSON value in body and the layout of
\* its text.  "compact" is the layout json.dumps writes, "spaced" any other
\* layout of the same value (white space, order of the keys); a binary frame
\* that is not UTF-8 has no JSON value.  The other layout is kept for the
\* messages that can reach client.publish.
MessageForms == {"compact", "spaced"}

WebSocketMessages ==
    {m \in [form : MessageForms,
            body : GatewayPayloads
                     \cup {[kind |-> "badutf8", on_time |-> NoValue,
                             off_time |-> NoValue]}] :
        m.form # "compact" => /\ m.body.kind = "dict"
                              /\ m.body.on_time.t # "missing"
                              /\ m.body.off_time.t # "missing"}

NoMessage == [form |-> "none", body |-> NoPayload]

\* json.loads keeps the value and drops the layout
json_loads(m) == m.body

\* json.dumps writes the value in its own layout
json_dumps(d) == [form |-> "compact", body |-> d]

\* the observation of a message whose handling has just begun
NoHandling ==
    [ flag |-> "unread",        \* mqtt_connected as publish_to_mqtt read it
      npub |-> 0,               \* calls of client.publish for the message
      confirmed |-> FALSE ]     \* is_published() returned True

VARIABLES
    clock,                          \* wall clock, seconds of the day
    start_clock,                    \* wall clock when the process started
    pc,                             \* position of the main thread
    now,                            \* main(): local now
    now_str,                        \* main(): local now_str
    current_schedule,               \* global current_schedule
    arduino,                        \* global arduino: "None" or "open"
    last_command_sent_minute,       \* global
    last_known_state,               \* global: "None", "0" or "1"
    last_serial_connect_attempt,    \* global
    msg,                            \* payload on_message is working on
    msg_pc,                         \* position of the bus thread in on_message
    nmsgs,                          \* messages delivered so far
    nfaults,                        \* serial failures produced so far
    bus_thread,                     \* the thread of client.loop_start():
                                    \* "none", "running" or "stopped"
    \* observations (written by the actions, read by no action's guard)
    tick,                           \* what the current tick has done so far
    issued,                         \* serial commands per minute
    run,                            \* the current run of matching ticks
    retry,                          \* the command whose last write failed
    last_fail,                      \* clock of the write failure that closed
                                    \* the link, -1 when there is none
    last_setup,                     \* clock at the last call of setup_serial
    sched_src,                      \* which message wrote each schedule field
    released,                       \* what main() has released, in order
    fresh,                          \* wall minute in which an accepted
                                    \* on_message ended, None once a tick began
    \* gateway process
    mqtt_connected,                 \* global mqtt_connected
    bus_up,                         \* the transport holds a broker connection
    lock_held,                      \* mqtt_connection_lock is held
    g_pc,                           \* position of the event loop's handler
    g_conn,                         \* connection whose message is handled
    g_raw,                          \* the message being handled, as received
    g_msg,                          \* schedule_data: the message after json.loads
    g_status,                       \* response_status of the handler
    published,                      \* payloads handed to client.publish
    responses,                      \* responses sent, in order
    nreq,                           \* messages received so far
    nbus,                           \* bus notifications so far
    pub,                            \* observation of the last client.publish
    g_obs,                          \* observation of the handling of g_raw
    received,                       \* connections of the messages received,
                                    \* in order of receipt
    g_run,                          \* start_server: "serving", "closed" (the
                                    \* acceptor is closed) or "stopped"
    g_released                      \* what start_server has released, in order

prog == << clock, start_clock, pc, now, now_str, current_schedule, arduino,
           last_command_sent_minute, last_known_state,
           last_serial_connect_attempt, msg, msg_pc, nmsgs, nfaults,
           bus_thread >>

obs == << tick, issued, run, retry, last_fail, last_setup, sched_src,
          released, fresh >>

gw == << mqtt_connected, bus_up, lock_held, g_pc, g_conn, g_raw, g_msg,
         g_status, published, responses, nreq, nbus, pub, g_obs, received,
         g_run, g_released >>

vars == << prog, obs, gw >>

\* the observation of a tick that has done nothing yet
NoTick ==
    [ opened |-> FALSE,         \* the port was open at the schedule check
      reconnect |-> "none",     \* outcome of this tick's reconnect attempt
      gap_prev |-> 0,           \* seconds since the previous setup_serial call
      gap_fail |-> -1,          \* seconds since the write failure, -1: none
      branch |-> "none",        \* "1": ON branch taken, "0": OFF branch
      pre |-> "None",           \* last_known_state when the branch began
      lcm_pre |-> None,         \* last_command_sent_minute at that time
      lcm_post |-> None,        \* and when the branch ended
      write |-> "none",         \* the command written to the port
      ok |-> FALSE,             \* the write succeeded
      retry |-> FALSE,          \* the write repeats a failed command
      seen_on |-> -1,           \* message whose on_time the tick compared
      seen_off |-> -1,          \* message whose off_time the tick compared
      eq_on |-> FALSE,          \* the on_time compared was the minute read
      eq_off |-> FALSE,         \* the off_time compared was the minute read
      tie |-> FALSE,            \* when the branch ran, the store held one
                                \* message's schedule, both times = now_str
      post |-> "None",          \* last_known_state when the branch ended
      link_post |-> "None",     \* arduino when the branch ended
      nwrites |-> 0,            \* arduino.write calls of the branch
      link_pre |-> "None",      \* arduino when the tick began
      prev_reconnect |-> "none", \* reconnect outcome of the tick before
      first |-> FALSE ]         \* no tick began between the end of the last
                                \* accepted on_message, in the minute this
                                \* tick read, and this tick

NoIssued == [wall |-> None, n |-> 0, read |-> None, e |-> 0]

NoRun == [cmd |-> "none", min |-> None, n |-> 0]

\* age: ticks begun in minute min since the failed write
NoRetry == [cmd |-> "none", min |-> None, age |-> 0, lcm |-> None]

(***************************************************************************)
(* Global state after the module is loaded.                                *)
(***************************************************************************)
Init ==
    /\ clock \in StartClocks
    /\ start_clock = clock
    /\ pc = "start"
    /\ now = 0
    /\ now_str = None
    /\ current_schedule = [on_time |-> None, off_time |-> None]
    /\ arduino = "None"
    /\ last_command_sent_minute = None
    /\ last_known_state = "None"
    /\ last_serial_connect_attempt = 0
    /\ msg = NoPayload
    /\ msg_pc = "idle"
    /\ nmsgs = 0
    /\ nfaults = 0
    /\ bus_thread = "none"
    /\ tick = NoTick
    /\ issued = NoIssued
    /\ run = NoRun
    /\ retry = NoRetry
    /\ last_fail = -1
    /\ last_setup = -1
    /\ sched_src = [on_time |-> 0, off_time |-> 0]
    /\ released = << >>
    /\ fresh = None
    /\ mqtt_connected = FALSE
    /\ bus_up = FALSE
    /\ lock_held = FALSE
    /\ g_pc = "idle"
    /\ g_conn = 0
    /\ g_raw = NoMessage
    /\ g_msg = NoPayload
    /\ g_status = "none"
    /\ published = << >>
    /\ responses = << >>
    /\ nreq = 0
    /\ nbus = 0
    /\ pub = [called |-> FALSE, connected |-> FALSE, locked |-> FALSE]
    /\ g_obs = NoHandling
    /\ received = << >>
    /\ g_run = "serving"
    /\ g_released = << >>

(***************************************************************************)
(* Conditions and assignments of the controller, one operator per place in *)
(* the code.                                                               *)
(***************************************************************************)
\* on_message: isinstance(schedule_data, dict) and both keys present
HasBothKeys(p) ==
    /\ p.kind = "dict"
    /\ p.on_time.t # "missing"
    /\ p.off_time.t # "missing"

\* on_message: the two strptime calls return (a non-text value raises
\* TypeError, which the outer handler catches, a bad text ValueError)
TimesParse(p) ==
    /\ p.on_time.t = "str"
    /\ p.off_time.t = "str"
    /\ strptime_HM(p.on_time.s)
    /\ strptime_HM(p.off_time.s)

\* on_message: the message reaches the assignments
Accepted(p) == HasBothKeys(p) /\ TimesParse(p)

\* on_message: value of the global last_known_state after the assignment
\* "last_known_state = None": the name is not declared global in on_message,
\* so the assignment binds a local and the global keeps its value
KnownStateAfterMessage(prev) == prev

\* setup_serial: last_known_state = None
KnownStateAfterSetup(prev) == "None"

\* (mutation of ReconnectDue: the port is never opened again)
ReconnectDue_Never(t, last) == FALSE

\* (mutation of ReconnectDue: the delay is not applied)
ReconnectDue_NoDelay(t, last) == t - last > 0

\* main: now - last_serial_connect_attempt > SERIAL_RECONNECT_DELAY_SECONDS
ReconnectDue(t, last) == t - last > SERIAL_RECONNECT_DELAY_SECONDS

\* (mutation of AttemptTimeAfterReconnect: the attempt is not recorded)
AttemptTimeAfterReconnect_Kept(t, last) == last

\* main: last_serial_connect_attempt = now, before setup_serial is called
AttemptTimeAfterReconnect(t, last) == t

\* (mutation of MinuteAfterReconnect: the minute is not reset)
MinuteAfterReconnect_Kept(opened, last) == last

\* main: "if arduino: last_command_sent_minute = None" after setup_serial
MinuteAfterReconnect(opened, last) == IF opened THEN None ELSE last

\* a comparison that every schedule time passes
ScheduleMatches_Always(sched_time, ns) == TRUE

\* main: current_schedule["on_time"] == now_str (and the same for off_time)
ScheduleMatches(sched_time, ns) == sched_time = ns

\* (mutation of MinuteNotSent: the minute is not consulted)
MinuteNotSent_Always(last, ns) == TRUE

\* main: last_command_sent_minute != now_str
MinuteNotSent(last, ns) == last # ns

\* (mutation of StateDiffers: the known state is not consulted)
StateDiffers_Always(state, cmd) == TRUE

\* main: last_known_state != '1' (and != '0' in the OFF branch)
StateDiffers(state, cmd) == state # cmd

\* (mutation of MinuteAfterSend: the minute is recorded after a failed send)
MinuteAfterSend_Always(opened, last, ns) == ns

\* main: "if arduino: last_command_sent_minute = now_str" after the send
MinuteAfterSend(opened, last, ns) == IF opened THEN ns ELSE last

\* main: "last_command_sent_minute = now_str" when the state is already right
MinuteAfterSkip(last, ns) == ns

\* (mutation of KnownStateAfterSend: the state is recorded before the write)
KnownStateAfterSend_Always(written, prev, cmd) == cmd

\* send_to_arduino: last_known_state = command, only after a good write
KnownStateAfterSend(written, prev, cmd) == IF written THEN cmd ELSE prev

(***************************************************************************)
(* Bus thread: on_message.  The callback runs on the transport's thread    *)
(* (client.loop_start()), so its three global writes interleave with the   *)
(* steps of the main loop.                                                 *)
(***************************************************************************)
\* decode, json.loads, the dict test, both strptime calls and, when all of
\* them pass, current_schedule["on_time"] = ...
OnMessageBegin ==
    /\ UNCHANGED << gw, bus_thread, released >>
    /\ bus_thread = "running"
    /\ msg_pc = "idle"
    /\ nmsgs < MaxMsgs
    /\ \E p \in Payloads :
        /\ nmsgs' = nmsgs + 1
        /\ IF Accepted(p)
           THEN /\ current_schedule' =
                       [current_schedule EXCEPT !.on_time = p.on_time.s]
                /\ msg' = p
                /\ msg_pc' = "set_off"
                /\ sched_src' = [sched_src EXCEPT !.on_time = nmsgs + 1]
                /\ run' = NoRun
                /\ retry' = NoRetry
                /\ fresh' = None
                /\ tick' = [tick EXCEPT !.first = FALSE]
           ELSE UNCHANGED << current_schedule, msg, msg_pc, sched_src, run,
                             retry, fresh, tick >>
    /\ UNCHANGED << clock, start_clock, pc, now, now_str, arduino,
                    last_command_sent_minute, last_known_state,
                    last_serial_connect_attempt, nfaults >>
    /\ UNCHANGED << issued, last_fail, last_setup >>

\* current_schedule["off_time"] = schedule_data["off_time"]
OnMessageSetOff ==
    /\ UNCHANGED << gw, bus_thread, released >>
    /\ msg_pc = "set_off"
    /\ current_schedule' = [current_schedule EXCEPT !.off_time = msg.off_time.s]
    /\ msg_pc' = "reset"
    /\ sched_src' = [sched_src EXCEPT !.off_time = sched_src.on_time]
    /\ run' = NoRun
    /\ retry' = NoRetry
    /\ UNCHANGED << clock, start_clock, pc, now, now_str, arduino,
                    last_command_sent_minute, last_known_state,
                    last_serial_connect_attempt, msg, nmsgs, nfaults >>
    /\ UNCHANGED << tick, issued, last_fail, last_setup, fresh >>

\* last_command_sent_minute = None; last_known_state = None; return
OnMessageReset ==
    /\ UNCHANGED << gw, bus_thread, released >>
    /\ msg_pc = "reset"
    /\ last_command_sent_minute' = None
    /\ last_known_state' = KnownStateAfterMessage(last_known_state)
    /\ msg' = NoPayload
    /\ msg_pc' = "idle"
    /\ issued' = [issued EXCEPT !.e = 0]
    /\ run' = NoRun
    /\ retry' = NoRetry
    /\ UNCHANGED << clock, start_clock, pc, now, now_str, current_schedule,
                    arduino, last_serial_connect_attempt, nmsgs, nfaults >>
    /\ fresh' = strftime_HM(clock)
    /\ UNCHANGED << tick, last_fail, last_setup, sched_src >>

(***************************************************************************)
(* Serial link                                                             *)
(***************************************************************************)
\* serial.Serial(...) returns an open port, returns a port that is not
\* open, or raises
SetupOutcomes == {"ok", "notopen", "error"}

\* setup_serial with the outcome o of the open, but for its return value
setup_serial(o) ==
    /\ o # "ok" => nfaults < MaxFaults
    /\ nfaults' = IF o = "ok" THEN nfaults ELSE nfaults + 1
    /\ last_known_state' = KnownStateAfterSetup(last_known_state)
    /\ clock' = IF o = "error" THEN clock ELSE clock + SETTLE_SECONDS
    /\ last_setup' = clock

\* the value setup_serial returns, which the caller stores in arduino
SetupResult(o) == IF o = "ok" THEN "open" ELSE "None"

\* arduino.write / flush succeed, or raise (timeout, SerialException, other)
WriteOutcomes == {"ok", "fail"}

\* (mutation of PortAfterClose: the port is left as it is)
PortAfterClose_Kept(port) == port

\* close_serial_safely: the port is closed if it was open, arduino = None
PortAfterClose(port) == "None"

\* send_to_arduino: nothing is written unless the port is open, else
\* arduino.write is called once, whatever its outcome
WriteAttempts(port) == IF port = "open" THEN 1 ELSE 0

\* send_to_arduino(cmd) called with the port open, with outcome o; a failure
\* runs close_serial_safely and leaves arduino = None
send_to_arduino(cmd, o) ==
    /\ o # "ok" => nfaults < MaxFaults
    /\ nfaults' = IF o = "ok" THEN nfaults ELSE nfaults + 1
    /\ last_known_state' = KnownStateAfterSend(o = "ok", last_known_state, cmd)
    /\ arduino' = IF o = "ok" THEN arduino ELSE PortAfterClose(arduino)

(***************************************************************************)
(* Main thread                                                             *)
(***************************************************************************)
\* positions of the main thread inside "while True:"
LoopPositions == {"loop", "check_on", "do_on", "check_off", "do_off", "sleep"}

\* main(): the first setup_serial and the attempt time
Startup ==
    /\ UNCHANGED << gw, bus_thread, released >>
    /\ pc = "start"
    /\ \E o \in SetupOutcomes :
        /\ setup_serial(o)
        /\ arduino' = SetupResult(o)
        /\ last_serial_connect_attempt' = clock'
    /\ pc' = "connect"
    /\ UNCHANGED << start_clock, now, now_str, current_schedule,
                    last_command_sent_minute, msg, msg_pc, nmsgs >>
    /\ UNCHANGED << tick, issued, run, retry, last_fail, sched_src, fresh >>

\* client.connect either returns, and client.loop_start() starts the bus
\* thread, or raises: then close_serial_safely() and sys.exit
Connect ==
    /\ UNCHANGED gw
    /\ pc = "connect"
    /\ \E bus \in {"ok", "refused"} :
        IF bus = "ok"
        THEN /\ bus_thread' = "running"
             /\ pc' = "loop"
             /\ UNCHANGED << arduino, released >>
        ELSE /\ arduino' = PortAfterClose(arduino)
             /\ released' = Append(released, "serial")
             /\ pc' = "exited"
             /\ UNCHANGED bus_thread
    /\ UNCHANGED << clock, start_clock, now, now_str, current_schedule,
                    last_command_sent_minute, last_known_state,
                    last_serial_connect_attempt, msg, msg_pc, nmsgs, nfaults >>
    /\ UNCHANGED << tick, issued, run, retry, last_fail, last_setup,
                    sched_src, fresh >>

\* top of the loop: read the clock, then the reconnect block
TickBegin ==
    /\ UNCHANGED << gw, bus_thread, released >>
    /\ pc = "loop"
    /\ clock - start_clock < MaxRun
    /\ now' = clock
    /\ now_str' = strftime_HM(clock)
    /\ pc' = "check_on"
    /\ IF arduino # "open" /\ ReconnectDue(clock, last_serial_connect_attempt)
       THEN \E o \in SetupOutcomes :
              /\ last_serial_connect_attempt' =
                     AttemptTimeAfterReconnect(clock, last_serial_connect_attempt)
              /\ setup_serial(o)
              /\ arduino' = SetupResult(o)
              /\ last_command_sent_minute' =
                     MinuteAfterReconnect(o = "ok", last_command_sent_minute)
              /\ tick' = [NoTick EXCEPT
                            !.reconnect = IF o = "ok" THEN "ok" ELSE "failed",
                            !.link_pre = arduino,
                            !.prev_reconnect = tick.reconnect,
                            !.first = (fresh = strftime_HM(clock)),
                            !.gap_prev = clock - last_setup,
                            !.gap_fail = IF last_fail < 0 THEN -1
                                         ELSE clock - last_fail]
              /\ issued' = IF o = "ok" THEN [issued EXCEPT !.e = 0] ELSE issued
              /\ last_fail' = IF o = "ok" THEN -1 ELSE last_fail
              /\ run' = NoRun
       ELSE /\ UNCHANGED << clock, arduino, last_known_state, nfaults,
                            last_serial_connect_attempt,
                            last_command_sent_minute >>
            /\ tick' = [NoTick EXCEPT
                            !.link_pre = arduino,
                            !.prev_reconnect = tick.reconnect,
                            !.first = (fresh = strftime_HM(clock))]
            /\ run' = IF arduino = "open" /\ run.min = strftime_HM(clock)
                      THEN run ELSE NoRun
            /\ UNCHANGED << issued, last_fail, last_setup >>
    /\ retry' = IF retry.cmd # "none" /\ retry.min = strftime_HM(clock)
                THEN [retry EXCEPT !.age = IF retry.age < 2 THEN retry.age + 1
                                           ELSE 2]
                ELSE NoRetry
    /\ fresh' = None
    /\ UNCHANGED << start_clock, current_schedule, msg, msg_pc, nmsgs >>
    /\ UNCHANGED sched_src

\* a run of matching ticks for command cmd begins at this tick when none is
\* under way, the device is not known to be in that state and no schedule
\* message is being stored
RunAtMatch(cmd) ==
    IF run.cmd = "none" /\ last_known_state # cmd /\ msg_pc = "idle"
    THEN [cmd |-> cmd, min |-> now_str, n |-> 0]
    ELSE run

\* "if arduino and arduino.is_open:" and the ON comparison
CheckOn ==
    /\ UNCHANGED << gw, bus_thread, released >>
    /\ pc = "check_on"
    /\ pc' = IF arduino # "open" THEN "sleep"
             ELSE IF ScheduleMatches(current_schedule.on_time, now_str)
                  THEN "do_on" ELSE "check_off"
    /\ tick' = IF arduino # "open" THEN tick
               ELSE [tick EXCEPT !.opened = TRUE,
                                 !.seen_on = sched_src.on_time,
                                 !.eq_on = (current_schedule.on_time = now_str)]
    /\ run' = IF pc' = "do_on" THEN RunAtMatch("1") ELSE run
    /\ UNCHANGED << clock, start_clock, now, now_str, current_schedule, arduino,
                    last_command_sent_minute, last_known_state,
                    last_serial_connect_attempt, msg, msg_pc, nmsgs, nfaults >>
    /\ UNCHANGED << issued, retry, last_fail, last_setup, sched_src, fresh >>

\* the stored schedule calls for cmd in the minute the tick read, and no
\* schedule message is being stored
CalledFor(cmd) ==
    /\ msg_pc = "idle"
    /\ cmd = "1" => current_schedule.on_time = now_str
    /\ cmd = "0" => /\ current_schedule.off_time = now_str
                    /\ current_schedule.on_time # now_str

\* observations of a branch for cmd that ends with last_command_sent_minute
\* = post, having written the command (wrote) with success (ok) or not
BranchObserved(cmd, wrote, ok, post) ==
    /\ tick' = [tick EXCEPT !.branch = cmd,
                            !.pre = last_known_state,
                            !.lcm_pre = last_command_sent_minute,
                            !.lcm_post = post,
                            !.write = IF wrote THEN cmd ELSE "none",
                            !.ok = wrote /\ ok,
                            !.retry = wrote /\ retry.cmd = cmd,
                            !.tie = /\ msg_pc = "idle"
                                    /\ sched_src.on_time = sched_src.off_time
                                    /\ current_schedule.on_time = now_str
                                    /\ current_schedule.off_time = now_str,
                            !.post = last_known_state',
                            !.link_post = arduino',
                            !.nwrites = IF wrote THEN WriteAttempts(arduino)
                                        ELSE 0]
    /\ issued' =
         IF ~wrote THEN issued
         ELSE [ wall |-> strftime_HM(clock),
                n |-> IF issued.wall = strftime_HM(clock)
                      THEN IF issued.n < 2 THEN issued.n + 1 ELSE 2
                      ELSE 1,
                read |-> now_str,
                e |-> IF issued.read = now_str
                      THEN IF issued.e < 2 THEN issued.e + 1 ELSE 2
                      ELSE 1 ]
    /\ run' = IF wrote /\ ~ok THEN NoRun
              ELSE IF wrote /\ run.cmd = cmd
                   THEN [run EXCEPT !.n = IF run.n < 2 THEN run.n + 1 ELSE 2]
                   ELSE run
    /\ retry' = IF wrote /\ ~ok /\ CalledFor(cmd)
                THEN [cmd |-> cmd, min |-> now_str, age |-> 0,
                      lcm |-> last_command_sent_minute]
                ELSE IF wrote THEN NoRetry ELSE retry
    /\ last_fail' = IF wrote /\ ~ok THEN clock ELSE last_fail

\* body of a matching branch for command cmd
Branch(cmd) ==
    /\ UNCHANGED << gw, bus_thread, released >>
    /\ pc' = "sleep"
    /\ IF MinuteNotSent(last_command_sent_minute, now_str)
       THEN IF StateDiffers(last_known_state, cmd)
            THEN \E o \in WriteOutcomes :
                   /\ send_to_arduino(cmd, o)
                   /\ last_command_sent_minute' =
                          MinuteAfterSend(arduino' = "open",
                                          last_command_sent_minute, now_str)
                   /\ BranchObserved(cmd, TRUE, o = "ok",
                                     last_command_sent_minute')
            ELSE /\ last_command_sent_minute' =
                        MinuteAfterSkip(last_command_sent_minute, now_str)
                 /\ UNCHANGED << arduino, last_known_state, nfaults >>
                 /\ BranchObserved(cmd, FALSE, FALSE, last_command_sent_minute')
       ELSE /\ UNCHANGED << arduino, last_known_state, nfaults,
                            last_command_sent_minute >>
            /\ BranchObserved(cmd, FALSE, FALSE, last_command_sent_minute)
    /\ UNCHANGED << clock, start_clock, now, now_str, current_schedule,
                    last_serial_connect_attempt, msg, msg_pc, nmsgs >>
    /\ UNCHANGED << last_setup, sched_src, fresh >>

\* the ON branch
DoOn == pc = "do_on" /\ Branch("1")

\* "elif current_schedule["off_time"] == now_str:"
CheckOff ==
    /\ UNCHANGED << gw, bus_thread, released >>
    /\ pc = "check_off"
    /\ pc' = IF ScheduleMatches(current_schedule.off_time, now_str)
             THEN "do_off" ELSE "sleep"
    /\ tick' = [tick EXCEPT !.seen_off = sched_src.off_time,
                            !.eq_off = (current_schedule.off_time = now_str)]
    /\ run' = IF pc' = "do_off" /\ current_schedule.on_time # now_str
              THEN RunAtMatch("0") ELSE run
    /\ UNCHANGED << clock, start_clock, now, now_str, current_schedule, arduino,
                    last_command_sent_minute, last_known_state,
                    last_serial_connect_attempt, msg, msg_pc, nmsgs, nfaults >>
    /\ UNCHANGED << issued, retry, last_fail, last_setup, sched_src, fresh >>

\* the OFF branch
DoOff == pc = "do_off" /\ Branch("0")

\* time.sleep(CHECK_INTERVAL_SECONDS)
Sleep ==
    /\ UNCHANGED << gw, bus_thread, released >>
    /\ pc = "sleep"
    /\ clock' = clock + CHECK_INTERVAL_SECONDS
    /\ pc' = "loop"
    /\ UNCHANGED << start_clock, now, now_str, current_schedule, arduino,
                    last_command_sent_minute, last_known_state,
                    last_serial_connect_attempt, msg, msg_pc, nmsgs, nfaults >>
    /\ UNCHANGED obs

\* KeyboardInterrupt, or an exception that nothing inside the loop catches,
\* raised in the try block of the loop: control goes to the finally block
Interrupt ==
    /\ UNCHANGED << gw, bus_thread, released >>
    /\ pc \in LoopPositions
    /\ pc' = "finally"
    /\ UNCHANGED << clock, start_clock, now, now_str, current_schedule, arduino,
                    last_command_sent_minute, last_known_state,
                    last_serial_connect_attempt, msg, msg_pc, nmsgs, nfaults >>
    /\ UNCHANGED << tick, issued, run, retry, last_fail, last_setup,
                    sched_src, fresh >>

\* the finally block: client.loop_stop() returns when the bus thread has
\* ended (a running on_message ends first), client.disconnect(), then
\* close_serial_safely()
Finally ==
    /\ UNCHANGED gw
    /\ pc = "finally"
    /\ msg_pc = "idle"
    /\ bus_thread' = "stopped"
    /\ arduino' = PortAfterClose(arduino)
    /\ released' = released \o << "bus_loop", "serial" >>
    /\ pc' = "exited"
    /\ UNCHANGED << clock, start_clock, now, now_str, current_schedule,
                    last_command_sent_minute, last_known_state,
                    last_serial_connect_attempt, msg, msg_pc, nmsgs, nfaults >>
    /\ UNCHANGED << tick, issued, run, retry, last_fail, last_setup,
                    sched_src, fresh >>

Next ==
    \/ Startup
    \/ Connect
    \/ TickBegin
    \/ CheckOn
    \/ DoOn
    \/ CheckOff
    \/ DoOff
    \/ Sleep
    \/ OnMessageBegin
    \/ OnMessageSetOff
    \/ OnMessageReset

Spec == Init /\ [][Next]_vars

\* the steps of the main thread inside main(): none of them waits for
\* another thread, and time.sleep and the serial calls (timeout=1,
\* write_timeout=1) return, so the thread always takes its next step
MainStep ==
    \/ Startup
    \/ Connect
    \/ TickBegin
    \/ CheckOn
    \/ DoOn
    \/ CheckOff
    \/ DoOff
    \/ Sleep

\* a process started at midnight: the whole run lies in one minute
InitLive == Init /\ clock = 0

SpecLive == InitLive /\ [][Next]_vars /\ WF_vars(MainStep)

(***************************************************************************)
(* Gateway process (websocket_server.py).  The handlers of all WebSocket   *)
(* connections are coroutines of one event loop: from the receipt of a     *)
(* message to "await websocket.send" a handler does not yield (the lock is *)
(* never contended and wait_for_publish blocks the loop's thread), so one  *)
(* handler position suffices.  on_connect and on_disconnect run on the     *)
(* transport's thread (loop_start()) and interleave with every step.       *)
(***************************************************************************)
\* handle_connection: json.loads succeeds; it raises JSONDecodeError for
\* text that is no JSON and UnicodeDecodeError for bytes that are no UTF-8
ParsesAsJson(p) == p.kind \in {"notdict", "dict"}

GwHasBothKeys_OnOnly(p) == p.kind = "dict" /\ p.on_time.t # "missing"

\* handle_connection: isinstance(schedule_data, dict) and both keys present
GwHasBothKeys(p) ==
    /\ p.kind = "dict"
    /\ p.on_time.t # "missing"
    /\ p.off_time.t # "missing"

NotConnected_Never(flag) == FALSE

\* publish_to_mqtt: "if not client or not mqtt_connected" (client is set)
NotConnected(flag) == ~flag

\* on_connect: mqtt_connected after the callback with return code rc
ConnectedAfterOnConnect(rc) == rc = 0

PublishedPayload_Reserialized(message, schedule_data) ==
    json_dumps(schedule_data)

\* handle_connection passes the message it received, not schedule_data, and
\* publish_to_mqtt hands its argument to client.publish
PublishedPayload(message, schedule_data) == message

\* wait_for_publish / is_published: the transport confirms delivery, does
\* not confirm within the timeout, raises ValueError, or raises another
\* exception
PublishOutcomes == {"published", "unconfirmed", "value_error", "error"}

RepliesSent_NoneAfterError(kind) == IF kind = "badutf8" THEN 0 ELSE 1

\* websocket.send calls for one message: one in the try block or in the
\* handler of JSONDecodeError, one in the handler of any other exception
RepliesSent(kind) == 1

\* response_message of the reply, named by the place that wrote it
ReplyMessage(p, status) ==
    IF p.kind = "badutf8" THEN "internal_error"
    ELSE IF p.kind = "badjson" THEN "invalid_json"
    ELSE IF ~GwHasBothKeys(p) THEN "invalid_format"
    ELSE IF status = "success" THEN "published"
    ELSE "publish_failed"

\* a message arrives on connection c: json.loads and the structural test
GwReceive ==
    /\ g_run = "serving"
    /\ g_pc = "idle"
    /\ nreq < MaxReq
    /\ \E c \in 1..MaxConns, m \in WebSocketMessages :
        /\ g_conn' = c
        /\ g_raw' = m
        /\ g_msg' = IF ParsesAsJson(m.body) THEN json_loads(m) ELSE NoPayload
        /\ g_status' = "error"
        /\ g_pc' = IF ParsesAsJson(m.body) /\ GwHasBothKeys(json_loads(m))
                   THEN "acquire" ELSE "respond"
        /\ received' = Append(received, c)
    /\ nreq' = nreq + 1
    /\ g_obs' = NoHandling
    /\ UNCHANGED << mqtt_connected, bus_up, lock_held, published, responses,
                    nbus, pub >>
    /\ UNCHANGED << prog, obs, g_run, g_released >>

\* publish_to_mqtt: "async with mqtt_connection_lock:" is entered
GwAcquire ==
    /\ g_pc = "acquire"
    /\ ~lock_held
    /\ lock_held' = TRUE
    /\ g_pc' = "check"
    /\ UNCHANGED << mqtt_connected, bus_up, g_conn, g_raw, g_msg, g_status,
                    published, responses, nreq, nbus, pub, g_obs, received >>
    /\ UNCHANGED << prog, obs, g_run, g_released >>

\* the connected test; either branch leaves the with block, which releases
\* the lock
GwCheck ==
    /\ g_pc = "check"
    /\ lock_held' = FALSE
    /\ g_pc' = IF NotConnected(mqtt_connected) THEN "respond" ELSE "publish"
    /\ g_obs' = [g_obs EXCEPT !.flag = IF mqtt_connected THEN "connected"
                                       ELSE "not_connected"]
    /\ UNCHANGED << mqtt_connected, bus_up, g_conn, g_raw, g_msg, g_status,
                    published, responses, nreq, nbus, pub, received >>
    /\ UNCHANGED << prog, obs, g_run, g_released >>

\* result = client.publish(MQTT_TOPIC, message_payload)
GwPublish ==
    /\ g_pc = "publish"
    /\ published' = Append(published, PublishedPayload(g_raw, g_msg))
    /\ pub' = [called |-> TRUE, connected |-> mqtt_connected,
               locked |-> lock_held]
    /\ g_obs' = [g_obs EXCEPT !.npub = @ + 1]
    /\ g_pc' = "wait"
    /\ UNCHANGED << mqtt_connected, bus_up, lock_held, g_conn, g_raw, g_msg,
                    g_status, responses, nreq, nbus, received >>
    /\ UNCHANGED << prog, obs, g_run, g_released >>

\* wait_for_publish, is_published and the exception handlers
GwWait ==
    /\ g_pc = "wait"
    /\ \E o \in PublishOutcomes :
        /\ o = "published" => bus_up
        /\ g_status' = IF o = "published" THEN "success" ELSE "error"
        /\ mqtt_connected' = IF o = "value_error" THEN FALSE ELSE mqtt_connected
        /\ g_obs' = [g_obs EXCEPT !.confirmed = (o = "published")]
    /\ g_pc' = "respond"
    /\ UNCHANGED << bus_up, lock_held, g_conn, g_raw, g_msg, published,
                    responses, nreq, nbus, pub, received >>
    /\ UNCHANGED << prog, obs, g_run, g_released >>

\* await websocket.send(json.dumps({"status": ..., "message": ...})); the
\* handler then waits for the next message
GwRespond ==
    /\ g_pc = "respond"
    /\ responses' = IF RepliesSent(g_raw.body.kind) = 1
                    THEN Append(responses,
                                [conn |-> g_conn, status |-> g_status,
                                 message |-> ReplyMessage(g_raw.body,
                                                          g_status)])
                    ELSE responses
    /\ g_pc' = "idle"
    /\ g_conn' = 0
    /\ g_raw' = NoMessage
    /\ g_msg' = NoPayload
    /\ g_status' = "none"
    /\ UNCHANGED << mqtt_connected, bus_up, lock_held, published, nreq, nbus,
                    pub, g_obs, received >>
    /\ UNCHANGED << prog, obs, g_run, g_released >>

\* bus thread: the broker answers a connection attempt with return code rc
GwOnConnect ==
    /\ g_run # "stopped"
    /\ ~bus_up
    /\ nbus < MaxBusEvents
    /\ \E rc \in {0, 5} :
        /\ bus_up' = (rc = 0)
        /\ mqtt_connected' = ConnectedAfterOnConnect(rc)
    /\ nbus' = nbus + 1
    /\ UNCHANGED << lock_held, g_pc, g_conn, g_raw, g_msg, g_status, published,
                    responses, nreq, pub, g_obs, received >>
    /\ UNCHANGED << prog, obs, g_run, g_released >>

\* bus thread: the connection to the broker is lost
GwOnDisconnect ==
    /\ g_run # "stopped"
    /\ bus_up
    /\ nbus < MaxBusEvents
    /\ bus_up' = FALSE
    /\ mqtt_connected' = FALSE
    /\ nbus' = nbus + 1
    /\ UNCHANGED << lock_held, g_pc, g_conn, g_raw, g_msg, g_status, published,
                    responses, nreq, pub, g_obs, received >>
    /\ UNCHANGED << prog, obs, g_run, g_released >>

\* start_server after "await stop": websocket_server.close() and
\* wait_closed(), at a moment when no handler is between a message and its
\* reply
GwStop ==
    /\ g_run = "serving"
    /\ g_pc = "idle"
    /\ g_run' = "closed"
    /\ g_released' = Append(g_released, "acceptor")
    /\ UNCHANGED << mqtt_connected, bus_up, lock_held, g_pc, g_conn, g_raw,
                    g_msg, g_status, published, responses, nreq, nbus, pub,
                    g_obs, received >>
    /\ UNCHANGED << prog, obs >>

\* mqtt_client.loop_stop() and mqtt_client.disconnect()
GwLoopStop ==
    /\ g_run = "closed"
    /\ g_run' = "stopped"
    /\ g_released' = Append(g_released, "bus_loop")
    /\ bus_up' = FALSE
    /\ UNCHANGED << mqtt_connected, lock_held, g_pc, g_conn, g_raw, g_msg,
                    g_status, published, responses, nreq, nbus, pub, g_obs,
                    received >>
    /\ UNCHANGED << prog, obs >>

NextGateway ==
    \/ GwReceive
    \/ GwAcquire
    \/ GwCheck
    \/ GwPublish
    \/ GwWait
    \/ GwRespond
    \/ GwOnConnect
    \/ GwOnDisconnect

SpecGateway == Init /\ [][NextGateway]_vars

\* Both processes from their start to their exit, while no schedule is
\* submitted: the main thread of the controller (with an empty schedule store
\* no branch of the schedule runs), the ways out of main(), and the cleanup of
\* start_server.
NextShutdown ==
    \/ Startup
    \/ Connect
    \/ TickBegin
    \/ CheckOn
    \/ CheckOff
    \/ Sleep
    \/ Interrupt
    \/ Finally
    \/ GwStop
    \/ GwLoopStop

SpecShutdown == Init /\ [][NextShutdown]_vars

(***************************************************************************)
(* Claims about the controller                                             *)
(***************************************************************************)

\* C1 (debounce): in a run of consecutive ticks in a minute equal to on_time
\* (equal to off_time and not to on_time), with the schedule unchanged, the
\* link connected and every write succeeding, begun with the device not
\* known to be ON (OFF), exactly one ON (OFF) command has been written by
\* the end of every tick of the run.
C1_ExactlyOneCommandPerRun ==
    (pc = "sleep" /\ run.cmd # "none") => run.n = 1

\* C2: at most one serial command is issued during any single wall-clock
\* minute.
C2_OneCommandPerWallMinute == issued.n <= 1

\* C2 (amended): for one minute value read by the evaluator, at most one
\* serial command is issued between two resets of the debounce state (an
\* accepted schedule message, a successful serial reconnect).
C2_OneCommandPerMinuteBetweenResets == issued.e <= 1

\* two commands in one wall-clock minute, separated by a reset
C2_Witness == issued.n = 2 /\ issued.e = 1

\* C3: when on_message returns from an accepted message, both
\* last_command_sent_minute and last_known_state are unset.
C3_MessageResetsDebounceState ==
    [][(msg_pc = "reset" /\ msg_pc' = "idle")
         => (last_command_sent_minute' = None /\ last_known_state' = "None")]_vars

\* C4: the tick that follows a failed send, begun in the same minute, writes
\* the command again.
C4_RetriedOnNextTick ==
    ~(pc = "sleep" /\ retry.cmd # "none" /\ retry.age = 1)

\* C4 (amended): a failed send leaves last_command_sent_minute as it was,
\* and the command is written again by the first later tick of that minute
\* that finds the serial port open, the schedule being unchanged.
C4_RetriedOnceLinkIsBack ==
    /\ (retry.cmd # "none" /\ retry.age = 0)
          => last_command_sent_minute = retry.lcm
    /\ ~(pc = "sleep" /\ retry.cmd # "none" /\ retry.age >= 1 /\ tick.opened)

\* a tick writes again the command whose write failed earlier in the minute
C4_Witness == tick.retry /\ tick.write # "none" /\ tick.reconnect = "ok"

\* C5: a reconnect attempt that follows a write failure comes at least the
\* reconnect interval after that failure.
C5_ReconnectWaitsAfterFailure ==
    (tick.reconnect # "none" /\ tick.gap_fail >= 0)
        => tick.gap_fail >= SERIAL_RECONNECT_DELAY_SECONDS

\* C5 (amended): every reconnect attempt comes more than the reconnect
\* interval after the previous call of setup_serial (at startup or at an
\* earlier reconnect attempt).
C5_ReconnectWaitsAfterAttempt ==
    tick.reconnect # "none" => tick.gap_prev > SERIAL_RECONNECT_DELAY_SECONDS

\* a reconnect attempt made less than the interval after a write failure
C5_Witness ==
    /\ tick.reconnect # "none"
    /\ tick.gap_fail >= 0
    /\ tick.gap_fail < SERIAL_RECONNECT_DELAY_SECONDS

\* C7: a tick that compares both fields of the schedule compares the
\* on_time and the off_time written by the same message (or both initial).
C7_NoTornSchedule == tick.seen_off >= 0 => tick.seen_on = tick.seen_off

\* strict HH:MM: two digits 00..23, a colon, two digits 00..59
IsStrictHHMM(s) ==
    /\ Len(s) = 5
    /\ s[3] = ":"
    /\ \/ s[1] \in {"0", "1"} /\ s[2] \in DigitSet
       \/ s[1] = "2" /\ s[2] \in {"0", "1", "2", "3"}
    /\ s[4] \in {"0", "1", "2", "3", "4", "5"}
    /\ s[5] \in DigitSet

\* C8: every value held in the Schedule Store is unset or strict HH:MM.
C8_StoreHoldsStrictTimes ==
    /\ current_schedule.on_time = None \/ IsStrictHHMM(current_schedule.on_time)
    /\ current_schedule.off_time = None
          \/ IsStrictHHMM(current_schedule.off_time)

\* C9 (state-skip): a branch entered with last_command_sent_minute other
\* than the minute and the device already in the branch's state writes
\* nothing and sets last_command_sent_minute to the minute; and no tick
\* writes the command that equals the known device state.
C9_StateSkip ==
    /\ (tick.branch # "none" /\ tick.lcm_pre # now_str /\ tick.pre = tick.branch)
          => (tick.write = "none" /\ tick.lcm_post = now_str)
    /\ tick.write # "none" => tick.write # tick.pre

\* the ON branch is taken in a new minute with the device already ON
C9_Witness ==
    /\ tick.branch = "1"
    /\ tick.pre = "1"
    /\ tick.lcm_pre # now_str
    /\ tick.lcm_post = now_str

\* C10: after a successful reconnect, before the tick's first comparison,
\* last_command_sent_minute and last_known_state are both unset.
C10_ReconnectResetsDebounceState ==
    (pc = "check_on" /\ tick.reconnect = "ok")
        => (last_command_sent_minute = None /\ last_known_state = "None")

\* a reconnect succeeds after a command had been written and one had failed
C10_Witness ==
    /\ pc = "check_on"
    /\ tick.reconnect = "ok"
    /\ tick.gap_fail >= 0
    /\ issued.n >= 1

\* C14 (tie-break): when on_time equals off_time, a tick in that minute
\* evaluates the ON branch only; no OFF command is written at a tick whose
\* minute equals both on_time and off_time.
C14_OnWinsTie == tick.tie => (tick.branch = "1" /\ tick.write # "0")

\* C16: a serial send that fails has called arduino.write once, leaves the
\* port closed and arduino = None, and changes neither last_known_state nor
\* last_command_sent_minute; nothing is written unless the port is open.
C16_FailedSendLeavesStateAlone ==
    /\ (tick.write # "none" /\ ~tick.ok)
        => /\ tick.nwrites = 1
           /\ tick.link_post = "None"
           /\ tick.post = tick.pre
           /\ tick.lcm_post = tick.lcm_pre
    /\ tick.nwrites > 0 => tick.opened
    /\ (pc = "sleep" /\ tick.write # "none" /\ ~tick.ok) => arduino = "None"

\* an OFF command failed at a tick that found the device ON and an earlier
\* minute recorded
C16_Witness ==
    /\ pc = "sleep"
    /\ tick.write = "0"
    /\ ~tick.ok
    /\ tick.pre = "1"
    /\ tick.lcm_pre # None
    /\ tick.lcm_pre # now_str

\* C17: no serial failure ends the control loop, and after a failure the
\* loop keeps ticking: while the port is missing and the run goes on for
\* longer than the reconnect interval, a tick makes a reconnect attempt, and
\* unless the device fails to open again, the port is open and that tick
\* evaluates the schedule with it.
C17_LoopSurvivesSerialFailure ==
    /\ [][(pc \in LoopPositions) => (pc' \in LoopPositions)]_vars
    /\ (/\ pc \in LoopPositions
        /\ arduino = "None"
        /\ tick.reconnect = "none"
        /\ clock + SERIAL_RECONNECT_DELAY_SECONDS + CHECK_INTERVAL_SECONDS
               - start_clock < MaxRun)
         ~> \/ arduino = "open" /\ tick.reconnect = "ok" /\ tick.opened
            \/ arduino = "None" /\ tick.reconnect = "failed"

\* after a failed write closed the port, a reconnect attempt has opened it
\* again and the same tick has run a branch of the schedule
C17_Witness ==
    /\ pc = "sleep"
    /\ tick.reconnect = "ok"
    /\ tick.gap_fail >= 0
    /\ tick.opened
    /\ tick.branch # "none"
    /\ arduino = "open"

C19_NewScheduleAppliesAtNextTick ==
    (pc = "sleep" /\ tick.first /\ tick.opened)
        => /\ current_schedule.on_time = now_str
                => (tick.branch = "1" /\ tick.lcm_pre = None)
           /\ (current_schedule.off_time = now_str
                    /\ current_schedule.on_time # now_str)
                => (tick.branch = "0" /\ tick.lcm_pre = None)

\* C20: a reconnect attempt is made only while arduino is None, every
\* attempt (the first one at startup too) records its time in
\* last_serial_connect_attempt whatever its outcome, and an attempt comes
\* more than SERIAL_RECONNECT_DELAY_SECONDS after the attempt before it.
C20_ReconnectAttemptsSpaced ==
    /\ tick.reconnect # "none"
        => /\ tick.link_pre = "None"
           /\ last_serial_connect_attempt = now
           /\ tick.gap_prev > SERIAL_RECONNECT_DELAY_SECONDS
    /\ pc # "start" => last_serial_connect_attempt >= last_setup

\* the tick after a failed reconnect attempt finds the port still missing
\* and makes no attempt
C20_Witness ==
    /\ pc = "check_on"
    /\ tick.prev_reconnect = "failed"
    /\ tick.reconnect = "none"
    /\ tick.link_pre = "None"
    /\ last_serial_connect_attempt = now - CHECK_INTERVAL_SECONDS

\* C21: a command is written only at a tick that found the port open and
\* compared the minute it read with a schedule time equal to it, on_time for
\* "1" and off_time for "0", put in the store by an accepted message (so
\* none is written before the first message is accepted); the store starts
\* unset, holds an unset field exactly until a message writes it, and
\* changes only in the steps of on_message that store a field of the
\* accepted payload.
C21_CommandsFollowAcceptedSchedule ==
    /\ [](/\ tick.write # "none"
              => (tick.opened /\ tick.nwrites = 1 /\ tick.write = tick.branch)
          /\ tick.branch = "1" => (tick.eq_on /\ tick.seen_on >= 1)
          /\ tick.branch = "0" => (tick.eq_off /\ tick.seen_off >= 1)
          /\ (current_schedule.on_time = None) = (sched_src.on_time = 0)
          /\ (current_schedule.off_time = None) = (sched_src.off_time = 0))
    /\ [][
           /\ current_schedule'.on_time # current_schedule.on_time
              => /\ msg_pc = "idle" /\ msg_pc' = "set_off"
                 /\ HasBothKeys(msg')
                 /\ msg'.on_time.t = "str" /\ msg'.off_time.t = "str"
                 /\ strptime_HM(msg'.on_time.s) /\ strptime_HM(msg'.off_time.s)
                 /\ current_schedule'.on_time = msg'.on_time.s
                 /\ sched_src'.on_time = nmsgs'
           /\ current_schedule'.off_time # current_schedule.off_time
              => /\ msg_pc = "set_off"
                 /\ strptime_HM(msg.off_time.s)
                 /\ current_schedule'.off_time = msg.off_time.s
                 /\ sched_src'.off_time = sched_src.on_time
           /\ sched_src' # sched_src => msg_pc' \in {"set_off", "reset"}]_vars

\* a command goes out at a tick that compared the schedule of the second
\* accepted message
C21_Witness ==
    /\ tick.write = "0"
    /\ tick.ok
    /\ tick.seen_on = 2
    /\ tick.seen_off = 2

(***************************************************************************)
(* Claims about the gateway                                                *)
(***************************************************************************)

\* C6: client.publish is only ever called while mqtt_connected is true (no
\* disconnect notification takes effect between the connected test and the
\* publish call).
C6_PublishOnlyWhileConnected == pub.called => pub.connected

\* C11: a WebSocket message that is not valid JSON, is not a mapping, or
\* lacks on_time or off_time is answered with an error response, and
\* client.publish is never called for it.
C11_InvalidMessageRejected ==
    (/\ g_raw # NoMessage
     /\ ~(/\ g_raw.body.kind = "dict"
          /\ g_raw.body.on_time.t # "missing"
          /\ g_raw.body.off_time.t # "missing"))
        => /\ g_pc = "respond"
           /\ g_status = "error"
           /\ g_obs.flag = "unread"
           /\ g_obs.npub = 0

\* a mapping with on_time and without off_time is about to be answered
C11_Witness ==
    /\ g_pc = "respond"
    /\ g_raw.body.kind = "dict"
    /\ g_raw.body.on_time.t = "str"
    /\ g_raw.body.off_time.t = "missing"
    /\ bus_up
    /\ mqtt_connected

\* C12: for a structurally valid message the reply is success exactly when
\* publish_to_mqtt read mqtt_connected as true and the transport confirmed
\* the delivery within the timeout; when it read the flag as false the reply
\* is error and nothing was handed to the transport (so no subscriber
\* receives a schedule message and no Schedule Store changes).
C12_ReplyTellsDelivery ==
    (/\ g_pc = "respond"
     /\ g_raw.body.kind = "dict"
     /\ g_raw.body.on_time.t # "missing"
     /\ g_raw.body.off_time.t # "missing")
        => /\ (g_status = "success")
                <=> (g_obs.flag = "connected" /\ g_obs.confirmed)
           /\ g_status \in {"success", "error"}
           /\ g_obs.flag = "not_connected"
                => (g_status = "error" /\ g_obs.npub = 0)

\* after a message answered with success, the next one finds the bus not
\* connected
C12_Witness ==
    /\ g_pc = "respond"
    /\ g_obs.flag = "not_connected"
    /\ g_raw.body.kind = "dict"
    /\ Len(responses) = 1
    /\ responses[1].status = "success"
    /\ Len(published) = 1

\* C13: for a structurally valid message handled while mqtt_connected is
\* true, whatever its values, client.publish is called exactly once, and
\* with the message as it was received (not a re-serialised one).
C13_RawMessagePublishedOnce ==
    /\ g_obs.npub <= 1
    /\ (g_pc \in {"wait", "respond"} /\ g_obs.flag = "connected")
        => /\ g_obs.npub = 1
           /\ Len(published) > 0
           /\ published[Len(published)] = g_raw

\* a message in another layout than json.dumps writes, with values that are
\* no times, has been published
C13_Witness ==
    /\ g_pc = "respond"
    /\ g_obs.flag = "connected"
    /\ g_raw.form = "spaced"
    /\ g_raw.body.on_time.s = <<"2", "5", ":", "9", "9">>
    /\ g_status = "success"

\* C15: on the connections that stay open, every message received has got
\* exactly one response before the next message is taken, in the order of
\* receipt, also when handling the message raised an unexpected error.
C15_OneReplyPerMessageInOrder ==
    LET handled == IF g_pc = "idle" THEN received
                   ELSE SubSeq(received, 1, Len(received) - 1)
    IN  /\ Len(responses) = Len(handled)
        /\ \A i \in 1..Len(responses) : responses[i].conn = handled[i]

\* a connection got the reply to an unexpected error, then a second reply
C15_Witness ==
    /\ Len(responses) = 2
    /\ responses[1].conn = responses[2].conn
    /\ responses[1].message = "internal_error"
    /\ responses[2].message = "published"

\* C22: mqtt_connected agrees with the last connection event the transport
\* reported: it is true only when that event is an on_connect with rc = 0
\* (no on_disconnect since), and it is not false while that is the last
\* event, so no failed publish leaves later submits refused on a connected
\* bus.  bus_up is written by on_connect and on_disconnect alone, so it is
\* that last event.
C22_FlagAgreesWithTransport ==
    /\ mqtt_connected => bus_up
    /\ bus_up => mqtt_connected

=============================================================================
